---- MODULE Spec2Model ----
(***************************************************************************)
(* Model of eden.auth: the pydantic schemas of schemas.py (Keys, JWKSet,   *)
(* IdentityToken, TokenResponse, ErrorType, ErrorResponse) and the         *)
(* pydantic-settings class AppleSignInConfig of settings.py.               *)
(*                                                                         *)
(* A behaviour is one use of one entry point: an input document (or an     *)
(* environment) is drawn in Init, the class is instantiated on it, and the *)
(* resulting object is then serialized, re-parsed or assigned to, as the   *)
(* class allows.  Validation is the validation pydantic derives from the   *)
(* field declarations; nothing else is enforced because the classes        *)
(* declare no other validator and no model_config but env_prefix.          *)
(***************************************************************************)
EXTENDS Integers, Sequences, FiniteSets, TLC

VARIABLES
    claims,     \* IdentityToken: the decoded claim set handed to the class
    token,      \* IdentityToken: the object built from claims, or the error
    built,      \* IdentityToken: the object as it was when constructed
    assigned,   \* IdentityToken: the attribute assignments made since
    errDoc,     \* ErrorResponse: the document handed to the class
    errResp,    \* ErrorResponse: the object built from errDoc, or the error
    trDoc,      \* TokenResponse: the document handed to the class
    tr,         \* TokenResponse: the object built from trDoc, or the error
    json,       \* TokenResponse: the text model_dump_json produced
    tr2,        \* TokenResponse: the object model_validate_json read back
    jwkDoc,     \* JWKSet: the key-set document handed to the class
    jwks,       \* JWKSet: the object built from jwkDoc, or the error
    env,        \* AppleSignInConfig: the process environment
    heap,       \* AppleSignInConfig: the instances made so far, by identity
    result,     \* AppleSignInConfig: outcome of the latest instantiation
    ops         \* AppleSignInConfig: operations since the first instance

vars == <<claims, token, built, assigned, errDoc, errResp, trDoc, tr, json,
          tr2, jwkDoc, jwks, env, heap, result, ops>>

tokenVars  == <<claims, token, built, assigned>>
errorVars  == <<errDoc, errResp>>
trVars     == <<trDoc, tr, json, tr2>>
jwkVars    == <<jwkDoc, jwks>>
configVars == <<env, heap, result, ops>>

(***************************************************************************)
(* Bounds of the model.                                                    *)
(***************************************************************************)
MaxTime == 2        \* iat and exp are drawn from 0..MaxTime (seconds)
MaxAssign == 1      \* attribute assignments made to one IdentityToken

(***************************************************************************)
(* Python values whose characters matter.  A str is a sequence of          *)
(* one-character strings; every value carries the same three fields so     *)
(* that values of different Python types can be compared.                  *)
(***************************************************************************)
Str(s)   == [t |-> "str",      s |-> s,    n |-> 0]
Bool(b)  == [t |-> "bool",     s |-> <<>>, n |-> IF b THEN 1 ELSE 0]
Num(n)   == [t |-> "int",      s |-> <<>>, n |-> n]
Time(n)  == [t |-> "datetime", s |-> <<>>, n |-> n]
None     == [t |-> "none",     s |-> <<>>, n |-> 0]
ListVal  == [t |-> "list",     s |-> <<>>, n |-> 0]
Absent   == [t |-> "absent",   s |-> <<>>, n |-> 0]   \* key not in the input

NotRun == [kind |-> "NotRun"]                  \* the class not yet called
ValidationError(loc) == [kind |-> "ValidationError", loc |-> loc]

IsObject(o) == o.kind \notin {"NotRun", "ValidationError"}

(***************************************************************************)
(* str.lower() on the characters the inputs use.                           *)
(***************************************************************************)
LowerLetters == <<"a", "e", "f", "l", "r", "s", "t", "u", "y">>
UpperLetters == <<"A", "E", "F", "L", "R", "S", "T", "U", "Y">>

LowerChar(c) ==
    IF \E i \in 1..Len(UpperLetters) : UpperLetters[i] = c
    THEN LowerLetters[CHOOSE i \in 1..Len(UpperLetters) : UpperLetters[i] = c]
    ELSE c

UpperChar(c) ==
    IF \E i \in 1..Len(LowerLetters) : LowerLetters[i] = c
    THEN UpperLetters[CHOOSE i \in 1..Len(LowerLetters) : LowerLetters[i] = c]
    ELSE c

Lower(s) == [i \in 1..Len(s) |-> LowerChar(s[i])]

TrueWord  == <<"t", "r", "u", "e">>
FalseWord == <<"f", "a", "l", "s", "e">>

(***************************************************************************)
(* IdentityToken.str_to_bool, the mode="before" validator of               *)
(* email_verified and is_private_email.                                    *)
(***************************************************************************)
StrToBoolNoLower(value) ==
    IF value.t = "str" THEN Bool(value.s = TrueWord) ELSE value

str_to_bool(value) ==
    IF value.t = "str" THEN Bool(Lower(value.s) = TrueWord) ELSE value

(***************************************************************************)
(* Field validation derived from the annotations of IdentityToken.  Each   *)
(* returns <<ok, value>>.                                                  *)
(***************************************************************************)
\* bool | str | None = None, after str_to_bool has run on a given value.
ValidateFlag(raw) ==
    IF raw.t = "absent" THEN <<TRUE, None>>
    ELSE LET v == str_to_bool(raw)
         IN  IF v.t \in {"bool", "str", "none"} THEN <<TRUE, v>>
             ELSE <<FALSE, v>>

\* str, required.
ValidateStr(raw) == <<raw.t = "str", raw>>

\* datetime, required: an integer is taken as seconds since the epoch.  The
\* claim sets drawn give iat and exp as integers, as a decoded JWT does, or
\* leave iat out.
ValidateDatetime(raw) ==
    IF raw.t = "int" THEN <<TRUE, Time(raw.n)>> ELSE <<FALSE, raw>>

\* The fields modelled: sub stands for the three required str fields (iss,
\* sub, aud), which are declared alike.  The other optional fields (nonce,
\* nonce_supported, email, real_user_status, transfer_sub) are validated
\* each on its own and have no part in the validation of these.
TokenFields == {"sub", "iat", "exp", "email_verified", "is_private_email"}

TokenFieldResult(c, f) ==
    CASE f = "sub" -> ValidateStr(c[f])
      [] f \in {"iat", "exp"} -> ValidateDatetime(c[f])
      [] OTHER -> ValidateFlag(c[f])

IdentityTokenOrdered(c) ==
    LET bad == {f \in TokenFields : ~TokenFieldResult(c, f)[1]}
    IN  IF bad # {} THEN ValidationError(bad)
        ELSE IF ~(c.iat.n < c.exp.n) THEN ValidationError({"exp"})
        ELSE [kind |-> "IdentityToken"] @@
             [f \in TokenFields |-> TokenFieldResult(c, f)[2]]

\* IdentityToken(**c): every field is validated, all errors are collected.
IdentityToken(c) ==
    LET bad == {f \in TokenFields : ~TokenFieldResult(c, f)[1]}
    IN  IF bad # {} THEN ValidationError(bad)
        ELSE [kind |-> "IdentityToken"] @@
             [f \in TokenFields |-> TokenFieldResult(c, f)[2]]

(***************************************************************************)
(* Attribute assignment on a BaseModel that is neither frozen nor          *)
(* validate_assignment: the value is stored as given.                      *)
(***************************************************************************)
SetAttrFrozen(obj, f, v) == obj

SetAttr(obj, f, v) == [obj EXCEPT ![f] = v]

(***************************************************************************)
(* Inputs of the IdentityToken runs.                                       *)
(***************************************************************************)
CaseVariants(w) ==
    {[i \in 1..Len(w) |-> IF i \in m THEN UpperChar(w[i]) ELSE w[i]] :
        m \in SUBSET (1..Len(w))}

OtherWords == {<<"y", "e", "s">>, <<>>, <<"1">>, <<"t">>}

FlagStrings ==
    CaseVariants(TrueWord) \cup CaseVariants(FalseWord)
        \cup UNION {CaseVariants(w) : w \in OtherWords}

FlagInputs ==
    {Absent, None, Bool(TRUE), Bool(FALSE), ListVal}
        \cup {Str(s) : s \in FlagStrings}

\* One of the two flags ranges over every input, the other over these.
CoreFlagInputs ==
    {Absent, Bool(TRUE), Str(<<"y", "e", "s">>), Str(<<"F", "a", "l", "s", "e">>)}

ClaimSets ==
    {c \in [sub : {Absent, Str(<<"u", "1">>)},
            iat : {Absent} \cup {Num(n) : n \in 0..MaxTime},
            exp : {Num(n) : n \in 0..MaxTime},
            email_verified : FlagInputs,
            is_private_email : FlagInputs] :
        c.email_verified \in CoreFlagInputs \/ c.is_private_email \in CoreFlagInputs}

AssignFields == {"email_verified", "is_private_email", "exp"}
AssignValues == {Str(<<"y", "e", "s">>), None}

TokenIdle ==
    /\ claims = NotRun
    /\ token = NotRun
    /\ built = NotRun
    /\ assigned = <<>>

TokenInit ==
    /\ claims \in ClaimSets
    /\ token = NotRun
    /\ built = NotRun
    /\ assigned = <<>>

\* token = IdentityToken(**claims)
ParseIdentityToken ==
    /\ claims # NotRun
    /\ token = NotRun
    /\ token' = IdentityToken(claims)
    /\ built' = token'
    /\ UNCHANGED <<claims, assigned>>

\* token.f = v
AssignTokenField ==
    /\ IsObject(token)
    /\ Len(assigned) < MaxAssign
    /\ \E f \in AssignFields, v \in AssignValues :
          /\ token' = SetAttr(token, f, v)
          /\ assigned' = Append(assigned, <<f, v>>)
    /\ UNCHANGED <<claims, built>>

(***************************************************************************)
(* Python values of which only equality matters: a str is a TLA+ string.   *)
(***************************************************************************)
Txt(a)    == [t |-> "str",    a |-> a]
TxtNone   == [t |-> "none",   a |-> ""]
TxtList   == [t |-> "list",   a |-> ""]
TxtAbsent == [t |-> "absent", a |-> ""]

\* str, required.
ValidateTxt(raw) == <<raw.t = "str", raw>>

\* str | None = None
ValidateOptTxt(raw) ==
    IF raw.t = "absent" THEN <<TRUE, TxtNone>>
    ELSE <<raw.t \in {"str", "none"}, raw>>

(***************************************************************************)
(* class ErrorType(str, Enum): member name |-> value.                      *)
(***************************************************************************)
ErrorType ==
    [INVALID_REQUEST        |-> "invalid_request",
     INVALID_CLIENT         |-> "invalid_client",
     INVALID_GRANT          |-> "invalid_grant",
     UNAUTHORIZED_CLIENT    |-> "unauthorized_client",
     UNSUPPORTED_GRANT_TYPE |-> "unsupported_grant_type",
     INVALID_SCOPE          |-> "invalid_scope"]

ErrorMember(value) == [t |-> "ErrorType", a |-> value]

\* An enum field left open: any str is taken as it is.
ValidateErrorTypeOpen(raw) ==
    IF raw.t = "str" THEN <<TRUE, ErrorMember(raw.a)>> ELSE <<FALSE, raw>>

\* An enum field takes the member whose value the input equals.
ValidateErrorType(raw) ==
    IF raw.t = "str" /\ \E m \in DOMAIN ErrorType : ErrorType[m] = raw.a
    THEN <<TRUE, ErrorMember(raw.a)>>
    ELSE <<FALSE, raw>>

ErrorFields == {"error", "error_description", "error_uri"}

ErrorFieldResult(d, f) ==
    IF f = "error" THEN ValidateErrorType(d[f]) ELSE ValidateOptTxt(d[f])

\* ErrorResponse(**d)
ErrorResponse(d) ==
    LET bad == {f \in ErrorFields : ~ErrorFieldResult(d, f)[1]}
    IN  IF bad # {} THEN ValidationError(bad)
        ELSE [kind |-> "ErrorResponse"] @@
             [f \in ErrorFields |-> ErrorFieldResult(d, f)[2]]

ErrorInputs ==
    {Txt(ErrorType[m]) : m \in DOMAIN ErrorType}
        \cup {Txt(m) : m \in DOMAIN ErrorType}
        \cup {Txt("server_error"), Txt("Invalid_Request"), Txt(""),
              TxtNone, TxtAbsent, TxtList}

ErrorDocs ==
    [error : ErrorInputs,
     error_description : {TxtAbsent, TxtNone, Txt("expired code"), TxtList},
     error_uri : {TxtAbsent, Txt("https://e/1")}]

ErrorIdle == errDoc = NotRun /\ errResp = NotRun

ErrorInit == errDoc \in ErrorDocs /\ errResp = NotRun

\* errResp = ErrorResponse(**errDoc)
ParseErrorResponse ==
    /\ errDoc # NotRun
    /\ errResp = NotRun
    /\ errResp' = ErrorResponse(errDoc)
    /\ UNCHANGED errDoc

(***************************************************************************)
(* Keys and JWKSet.                                                        *)
(***************************************************************************)
MaxKeys == 2        \* entries of a key-set document

KeyFields == {"alg", "e", "kid", "kty", "n", "use"}

\* Keys(**d): six required str fields.
Keys(d) ==
    LET bad == {f \in KeyFields : ~ValidateTxt(d[f])[1]}
    IN  IF bad # {} THEN ValidationError(bad)
        ELSE [kind |-> "Keys"] @@ [f \in KeyFields |-> d[f]]

UniqueKids(ks) == \A i, j \in 1..Len(ks) : ks[i].kid = ks[j].kid => i = j

\* A key set that refuses two keys with one kid.
JWKSetUnique(d) ==
    LET bad == {i \in 1..Len(d.keys) : ~IsObject(Keys(d.keys[i]))}
    IN  IF ~d.hasKeys THEN ValidationError({"keys"})
        ELSE IF bad # {} THEN ValidationError(bad)
        ELSE IF ~UniqueKids(d.keys) THEN ValidationError({"keys"})
        ELSE [kind |-> "JWKSet",
              keys |-> [i \in 1..Len(d.keys) |-> Keys(d.keys[i])]]

\* JWKSet(**d): keys is a list whose every item validates as Keys.
JWKSet(d) ==
    LET bad == {i \in 1..Len(d.keys) : ~IsObject(Keys(d.keys[i]))}
    IN  IF ~d.hasKeys THEN ValidationError({"keys"})
        ELSE IF bad # {} THEN ValidationError(bad)
        ELSE [kind |-> "JWKSet",
              keys |-> [i \in 1..Len(d.keys) |-> Keys(d.keys[i])]]

KeyDocs ==
    [alg : {Txt("RS256")},
     e   : {Txt("AQAB")},
     kid : {Txt("K1"), Txt("K2")},
     kty : {Txt("RSA"), Txt("EC"), TxtAbsent},
     n   : {Txt("n1"), Txt("n2")},
     use : {Txt("sig")}]

KeyLists == UNION {[1..n -> KeyDocs] : n \in 0..MaxKeys}

JwkDocs ==
    {[hasKeys |-> TRUE, keys |-> ks] : ks \in KeyLists}
        \cup {[hasKeys |-> FALSE, keys |-> <<>>]}

JwkIdle == jwkDoc = NotRun /\ jwks = NotRun

JwkInit == jwkDoc \in JwkDocs /\ jwks = NotRun

\* jwks = JWKSet(**jwkDoc)
ParseJWKSet ==
    /\ jwkDoc # NotRun
    /\ jwks = NotRun
    /\ jwks' = JWKSet(jwkDoc)
    /\ UNCHANGED jwkDoc

(***************************************************************************)
(* TokenResponse, model_dump_json and model_validate_json.                 *)
(***************************************************************************)
MaxStrLen == 2      \* characters of an access_token
MaxExpires == 12    \* expires_in is drawn from -MaxExpires..MaxExpires

BearerWord == <<"b", "e", "a", "r", "e", "r">>

TrFields == <<"access_token", "expires_in", "id_token", "refresh_token",
              "token_type">>

\* The field names as they are written in a JSON text.
TrKey ==
    [access_token  |-> <<"a", "c", "c", "e", "s", "s", "_", "t", "o", "k", "e", "n">>,
     expires_in    |-> <<"e", "x", "p", "i", "r", "e", "s", "_", "i", "n">>,
     id_token      |-> <<"i", "d", "_", "t", "o", "k", "e", "n">>,
     refresh_token |-> <<"r", "e", "f", "r", "e", "s", "h", "_", "t", "o", "k", "e", "n">>,
     token_type    |-> <<"t", "o", "k", "e", "n", "_", "t", "y", "p", "e">>]

\* int, required.  The documents drawn give expires_in as an integer or
\* leave it out.
ValidateInt(raw) == <<raw.t = "int", raw>>

\* Literal["bearer"], required.
ValidateLiteral(raw) == <<raw.t = "str" /\ raw.s = BearerWord, raw>>

TrFieldResult(d, f) ==
    CASE f = "expires_in" -> ValidateInt(d[f])
      [] f = "token_type" -> ValidateLiteral(d[f])
      [] OTHER -> ValidateStr(d[f])

TrFieldSet == {TrFields[i] : i \in 1..Len(TrFields)}

\* TokenResponse(**d)
TokenResponse(d) ==
    LET bad == {f \in TrFieldSet : ~TrFieldResult(d, f)[1]}
    IN  IF bad # {} THEN ValidationError(bad)
        ELSE [kind |-> "TokenResponse"] @@
             [f \in TrFieldSet |-> TrFieldResult(d, f)[2]]

Quote     == "\""
Backslash == "\\"
Newline   == "\n"
Digits    == <<"0", "1", "2", "3", "4", "5", "6", "7", "8", "9">>

RECURSIVE Flatten(_)
Flatten(ss) == IF ss = <<>> THEN <<>> ELSE Head(ss) \o Flatten(Tail(ss))

\* A serializer that writes a backslash as it is.
EscapeCharRaw(c) ==
    CASE c = Quote     -> <<Backslash, Quote>>
      [] c = Newline   -> <<Backslash, "n">>
      [] OTHER         -> <<c>>

\* JSON string escaping of one character.
EscapeChar(c) ==
    CASE c = Quote     -> <<Backslash, Quote>>
      [] c = Backslash -> <<Backslash, Backslash>>
      [] c = Newline   -> <<Backslash, "n">>
      [] OTHER         -> <<c>>

JsonString(s) ==
    <<Quote>> \o Flatten([i \in 1..Len(s) |-> EscapeChar(s[i])]) \o <<Quote>>

RECURSIVE NatDigits(_)
NatDigits(n) ==
    IF n < 10 THEN <<Digits[n + 1]>>
    ELSE NatDigits(n \div 10) \o <<Digits[(n % 10) + 1]>>

JsonInt(n) == IF n < 0 THEN <<"-">> \o NatDigits(-n) ELSE NatDigits(n)

JsonValue(v) == IF v.t = "int" THEN JsonInt(v.n) ELSE JsonString(v.s)

JsonMember(o, f) == JsonString(TrKey[f]) \o <<":">> \o JsonValue(o[f])

RECURSIVE JsonMembers(_, _)
JsonMembers(o, i) ==
    IF i > Len(TrFields) THEN <<>>
    ELSE (IF i > 1 THEN <<",">> ELSE <<>>)
            \o JsonMember(o, TrFields[i]) \o JsonMembers(o, i + 1)

\* o.model_dump_json(): the fields in declaration order, no whitespace.
model_dump_json(o) == <<"{">> \o JsonMembers(o, 1) \o <<"}">>

(***************************************************************************)
(* Reading a JSON text.  Every reader returns [ok, val, next]: whether it  *)
(* read a value at position i, the value, and the position after it.  The  *)
(* texts read are those model_dump_json writes, which hold no whitespace.  *)
(***************************************************************************)
Fail == [ok |-> FALSE, val |-> None, next |-> 0]

At(txt, i) == IF i \in 1..Len(txt) THEN txt[i] ELSE ""

RECURSIVE ReadChars(_, _, _)
ReadChars(txt, i, acc) ==
    LET c == At(txt, i) d == At(txt, i + 1)
    IN  CASE c = "" \/ c = Newline -> Fail
          [] c = Quote -> [ok |-> TRUE, val |-> Str(acc), next |-> i + 1]
          [] c = Backslash ->
                CASE d = Quote     -> ReadChars(txt, i + 2, Append(acc, Quote))
                  [] d = Backslash -> ReadChars(txt, i + 2, Append(acc, Backslash))
                  [] d = "n"       -> ReadChars(txt, i + 2, Append(acc, Newline))
                  [] OTHER         -> Fail
          [] OTHER -> ReadChars(txt, i + 1, Append(acc, c))

ReadString(txt, i) ==
    IF At(txt, i) = Quote THEN ReadChars(txt, i + 1, <<>>) ELSE Fail

IsDigit(c) == \E k \in 1..10 : Digits[k] = c

DigitValue(c) == (CHOOSE k \in 1..10 : Digits[k] = c) - 1

RECURSIVE ReadDigits(_, _, _)
ReadDigits(txt, i, acc) ==
    IF IsDigit(At(txt, i))
    THEN ReadDigits(txt, i + 1, 10 * acc + DigitValue(At(txt, i)))
    ELSE [ok |-> TRUE, val |-> Num(acc), next |-> i]

\* A JSON number without fraction or exponent: no leading zero.
ReadInt(txt, i) ==
    LET neg == At(txt, i) = "-"
        j   == IF neg THEN i + 1 ELSE i
        r   == ReadDigits(txt, j, 0)
    IN  IF ~IsDigit(At(txt, j)) THEN Fail
        ELSE IF At(txt, j) = "0" /\ IsDigit(At(txt, j + 1)) THEN Fail
        ELSE IF neg THEN [r EXCEPT !.val = Num(-r.val.n)] ELSE r

ReadValue(txt, i) ==
    IF At(txt, i) = Quote THEN ReadString(txt, i) ELSE ReadInt(txt, i)

\* The members of an object from position i on, as a sequence of
\* <<key, value>>; val is the sequence.
RECURSIVE ReadMembers(_, _, _)
ReadMembers(txt, i, acc) ==
    LET k == ReadString(txt, i)
        v == ReadValue(txt, k.next + 1)
        more == Append(acc, <<k.val.s, v.val>>)
    IN  IF ~k.ok \/ At(txt, k.next) # ":" THEN Fail
        ELSE IF ~v.ok THEN Fail
        ELSE IF At(txt, v.next) = "," THEN ReadMembers(txt, v.next + 1, more)
        ELSE IF At(txt, v.next) = "}" /\ v.next = Len(txt)
             THEN [ok |-> TRUE, val |-> more, next |-> v.next + 1]
        ELSE Fail

ReadObject(txt) ==
    IF At(txt, 1) = "{" THEN ReadMembers(txt, 2, <<>>) ELSE Fail

\* The value the members give a key (the last one wins), or Absent.
Member(ms, key) ==
    LET at == {i \in 1..Len(ms) : ms[i][1] = key}
    IN  IF at = {} THEN Absent
        ELSE ms[CHOOSE i \in at : \A j \in at : j <= i][2]

\* TokenResponse.model_validate_json(txt)
model_validate_json(txt) ==
    LET r == ReadObject(txt)
    IN  IF ~r.ok THEN ValidationError({"json"})
        ELSE TokenResponse([f \in TrFieldSet |-> Member(r.val, TrKey[f])])

JsonAlphabet == {"a", Quote, Backslash, Newline}

Strings(n) == UNION {[1..k -> JsonAlphabet] : k \in 0..n}

TrDocs ==
    [access_token  : {Absent} \cup {Str(s) : s \in Strings(MaxStrLen)},
     expires_in    : {Absent} \cup {Num(n) : n \in -MaxExpires..MaxExpires},
     id_token      : {Str(<<"j", ".", "w", ".", "t">>)},
     refresh_token : {Str(<<"r">>), Str(<<Backslash, Quote>>)},
     token_type    : {Str(BearerWord), Str(<<"B">> \o Tail(BearerWord)), Absent}]

TrIdle == trDoc = NotRun /\ tr = NotRun /\ json = <<>> /\ tr2 = NotRun

TrInit == trDoc \in TrDocs /\ tr = NotRun /\ json = <<>> /\ tr2 = NotRun

\* tr = TokenResponse(**trDoc)
ParseTokenResponse ==
    /\ trDoc # NotRun
    /\ tr = NotRun
    /\ tr' = TokenResponse(trDoc)
    /\ UNCHANGED <<trDoc, json, tr2>>

\* json = tr.model_dump_json()
DumpTokenResponse ==
    /\ IsObject(tr)
    /\ json = <<>>
    /\ json' = model_dump_json(tr)
    /\ UNCHANGED <<trDoc, tr, tr2>>

\* tr2 = TokenResponse.model_validate_json(json)
ReadTokenResponse ==
    /\ json # <<>>
    /\ tr2 = NotRun
    /\ tr2' = model_validate_json(json)
    /\ UNCHANGED <<trDoc, tr, json>>

(***************************************************************************)
(* AppleSignInConfig.  The environment maps each entry name to whether it  *)
(* is set and to its value; names are those pydantic-settings matches to   *)
(* the fields under env_prefix "SIWA_" (it matches them without regard to  *)
(* case).  No other settings source is configured.                         *)
(***************************************************************************)
MaxOps == 2         \* operations that follow the first instantiation

ConfigFields ==
    <<"client_id", "team_id", "key_id", "private_key", "redirect_uri",
      "scope", "response_mode", "response_type", "state">>

ConfigFieldSet == {ConfigFields[i] : i \in 1..Len(ConfigFields)}

\* env_prefix + field name
EnvKey ==
    [client_id     |-> "SIWA_CLIENT_ID",
     team_id       |-> "SIWA_TEAM_ID",
     key_id        |-> "SIWA_KEY_ID",
     private_key   |-> "SIWA_PRIVATE_KEY",
     redirect_uri  |-> "SIWA_REDIRECT_URI",
     scope         |-> "SIWA_SCOPE",
     response_mode |-> "SIWA_RESPONSE_MODE",
     response_type |-> "SIWA_RESPONSE_TYPE",
     state         |-> "SIWA_STATE"]

EnvNames == {EnvKey[f] : f \in ConfigFieldSet}

\* The fields declared with a default, and the default.
ConfigDefaultShort ==
    [scope         |-> Txt("email"),
     response_mode |-> Txt("form_post"),
     response_type |-> Txt("code"),
     state         |-> TxtNone]

ConfigDefault ==
    [scope         |-> Txt("email name"),
     response_mode |-> Txt("form_post"),
     response_type |-> Txt("code id_token"),
     state         |-> TxtNone]

Unset      == [set |-> FALSE, val |-> ""]
Entry(v)   == [set |-> TRUE,  val |-> v]

\* A settings source that takes an empty entry for no entry.
ConfigFieldIgnoreEmpty(e, f) ==
    IF e[EnvKey[f]].set /\ e[EnvKey[f]].val # ""
    THEN <<TRUE, Txt(e[EnvKey[f]].val)>>
    ELSE IF f \in DOMAIN ConfigDefault THEN <<TRUE, ConfigDefault[f]>>
    ELSE <<FALSE, TxtAbsent>>

\* One field: the entry's value when there is an entry, else the default,
\* else the field is missing.
ConfigField(e, f) ==
    IF e[EnvKey[f]].set THEN <<TRUE, Txt(e[EnvKey[f]].val)>>
    ELSE IF f \in DOMAIN ConfigDefault THEN <<TRUE, ConfigDefault[f]>>
    ELSE <<FALSE, TxtAbsent>>

\* AppleSignInConfig() in environment e
AppleSignInConfig(e) ==
    LET bad == {f \in ConfigFieldSet : ~ConfigField(e, f)[1]}
    IN  IF bad # {} THEN ValidationError(bad)
        ELSE [kind |-> "AppleSignInConfig"] @@
             [f \in ConfigFieldSet |-> ConfigField(e, f)[2]]

\* A provider that keeps the first instance and hands it out again.
CachedSettings ==
    IF heap # <<>> THEN heap[1].obj ELSE AppleSignInConfig(env)

\* What a read of the configuration yields: the class is instantiated.
LoadedSettings == AppleSignInConfig(env)

RequiredEntries == {Unset, Entry(""), Entry("v")}

EnvDomain(name) ==
    CASE name = "SIWA_SCOPE" -> {Unset, Entry(""), Entry("x")}
      [] name \in {"SIWA_RESPONSE_MODE", "SIWA_RESPONSE_TYPE", "SIWA_STATE"}
            -> {Unset, Entry("x")}
      [] OTHER -> RequiredEntries

Environments == {e \in [EnvNames -> RequiredEntries \cup {Entry("x")}] :
                    \A name \in EnvNames : e[name] \in EnvDomain(name)}

\* What the modelled runs change after the first instantiation.
ChangedNames == {"SIWA_CLIENT_ID", "SIWA_SCOPE", "SIWA_STATE"}
ConfigAssignFields == {"client_id", "state"}
ConfigAssignValues == {Txt("z")}

\* An instance on the heap: the object, and for the record what it was when
\* made, the environment it was made in and the assignments made to it.
Cell(o, e) == [obj |-> o, made |-> o, from |-> e, sets |-> <<>>]

ConfigIdle == env = NotRun /\ heap = <<>> /\ result = NotRun /\ ops = 0

ConfigInit == env \in Environments /\ heap = <<>> /\ result = NotRun /\ ops = 0

\* AppleSignInConfig(): a new instance, or the validation error.
LoadConfig ==
    /\ env # NotRun
    /\ heap = <<>> \/ ops < MaxOps
    /\ LET o == LoadedSettings
       IN  IF IsObject(o)
           THEN /\ heap' = Append(heap, Cell(o, env))
                /\ result' = [out |-> [kind |-> "Instance", id |-> Len(heap) + 1],
                              from |-> env]
           ELSE /\ heap' = heap
                /\ result' = [out |-> o, from |-> env]
    /\ ops' = IF heap = <<>> THEN ops ELSE ops + 1
    /\ UNCHANGED env

\* os.environ[name] = v, or del os.environ[name].  A change made before the
\* first instance exists is one of the other initial environments.
SetEnv ==
    /\ heap # <<>>
    /\ ops < MaxOps
    /\ \E name \in ChangedNames : \E v \in EnvDomain(name) :
          /\ v # env[name]
          /\ env' = [env EXCEPT ![name] = v]
    /\ ops' = ops + 1
    /\ UNCHANGED <<heap, result>>

\* heap[i].f = v
AssignConfigField ==
    /\ ops < MaxOps
    /\ \E i \in 1..Len(heap), f \in ConfigAssignFields, v \in ConfigAssignValues :
          heap' = [heap EXCEPT ![i].obj = SetAttr(@, f, v),
                               ![i].sets = Append(@, <<f, v>>)]
    /\ ops' = ops + 1
    /\ UNCHANGED <<env, result>>

(***************************************************************************)
(* The specification: one entry point is exercised per behaviour.          *)
(***************************************************************************)
Init ==
    \/ TokenInit /\ ErrorIdle /\ TrIdle /\ JwkIdle /\ ConfigIdle
    \/ TokenIdle /\ ErrorInit /\ TrIdle /\ JwkIdle /\ ConfigIdle
    \/ TokenIdle /\ ErrorIdle /\ TrInit /\ JwkIdle /\ ConfigIdle
    \/ TokenIdle /\ ErrorIdle /\ TrIdle /\ JwkInit /\ ConfigIdle
    \/ TokenIdle /\ ErrorIdle /\ TrIdle /\ JwkIdle /\ ConfigInit

Next ==
    \/ ParseIdentityToken /\ UNCHANGED <<errorVars, trVars, jwkVars, configVars>>
    \/ AssignTokenField   /\ UNCHANGED <<errorVars, trVars, jwkVars, configVars>>
    \/ ParseErrorResponse /\ UNCHANGED <<tokenVars, trVars, jwkVars, configVars>>
    \/ ParseTokenResponse /\ UNCHANGED <<tokenVars, errorVars, jwkVars, configVars>>
    \/ DumpTokenResponse  /\ UNCHANGED <<tokenVars, errorVars, jwkVars, configVars>>
    \/ ReadTokenResponse  /\ UNCHANGED <<tokenVars, errorVars, jwkVars, configVars>>
    \/ ParseJWKSet        /\ UNCHANGED <<tokenVars, errorVars, trVars, configVars>>
    \/ LoadConfig         /\ UNCHANGED <<tokenVars, errorVars, trVars, jwkVars>>
    \/ SetEnv             /\ UNCHANGED <<tokenVars, errorVars, trVars, jwkVars>>
    \/ AssignConfigField  /\ UNCHANGED <<tokenVars, errorVars, trVars, jwkVars>>

Spec == Init /\ [][Next]_vars

(***************************************************************************)
(* Properties.                                                             *)
(***************************************************************************)
FlagFields == {"email_verified", "is_private_email"}

TrueStrings  == CaseVariants(TrueWord)
FalseStrings == CaseVariants(FalseWord)

Rejected(o, f) == o.kind = "ValidationError" /\ f \in o.loc

FlagTrue(f)   == claims[f].t = "str" /\ claims[f].s \in TrueStrings
FlagFalse(f)  == claims[f].t = "str" /\ claims[f].s \in FalseStrings
FlagOther(f)  == claims[f].t = "str" /\ ~FlagTrue(f) /\ ~FlagFalse(f)
FlagNative(f) == claims[f].t = "bool"

\* C1, as stated: for email_verified and is_private_email, a string equal
\* to "true" in any letter case becomes True, one equal to "false" in any
\* letter case becomes False, a bool is kept, and every other string makes
\* the construction of the IdentityToken fail.
C1_OtherStringsRejected ==
    built # NotRun =>
        \A f \in FlagFields :
            /\ FlagOther(f) => ~IsObject(built)
            /\ IsObject(built) =>
                  /\ FlagTrue(f)   => built[f] = Bool(TRUE)
                  /\ FlagFalse(f)  => built[f] = Bool(FALSE)
                  /\ FlagNative(f) => built[f] = claims[f]

\* C1, amended: for email_verified and is_private_email, a string equal to
\* "true" in any letter case becomes True, every other string (those equal
\* to "false" in any letter case among them) becomes False, a bool is kept;
\* no string and no bool makes the construction fail.
C1_StringsNormalized ==
    built # NotRun =>
        \A f \in FlagFields :
            /\ claims[f].t \in {"str", "bool"} => ~Rejected(built, f)
            /\ IsObject(built) =>
                  /\ FlagTrue(f)   => built[f] = Bool(TRUE)
                  /\ FlagFalse(f)  => built[f] = Bool(FALSE)
                  /\ FlagOther(f)  => built[f] = Bool(FALSE)
                  /\ FlagNative(f) => built[f] = claims[f]

C1_Witness ==
    /\ IsObject(built)
    /\ claims.email_verified = Str(<<"T", "r", "U", "e">>)
    /\ built.email_verified = Bool(TRUE)
    /\ claims.is_private_email = Str(<<"y", "e", "s">>)
    /\ built.is_private_email = Bool(FALSE)

SixErrors ==
    {"invalid_request", "invalid_client", "invalid_grant",
     "unauthorized_client", "unsupported_grant_type", "invalid_scope"}

\* C2: an ErrorResponse is constructed only when error is one of the six
\* listed values; for any other error value the construction fails, and the
\* error of a constructed ErrorResponse is the listed value that was given.
C2_ErrorClosed ==
    errResp # NotRun =>
        /\ ~(errDoc.error.t = "str" /\ errDoc.error.a \in SixErrors)
              => Rejected(errResp, "error")
        /\ IsObject(errResp) =>
              /\ errResp.error.a \in SixErrors
              /\ errResp.error.a = errDoc.error.a

C2_Witness ==
    /\ errResp = ValidationError({"error"})
    /\ errDoc.error = Txt("server_error")
    /\ errDoc.error_description = Txt("expired code")

\* C3: a constructed TokenResponse written by model_dump_json and read back
\* by model_validate_json is equal to the original in all five fields, and
\* the token_type of every constructed TokenResponse is "bearer".
C3_RoundTrip ==
    /\ tr2 # NotRun =>
          /\ IsObject(tr2)
          /\ \A i \in 1..Len(TrFields) : tr2[TrFields[i]] = tr[TrFields[i]]
    /\ IsObject(tr) => tr.token_type = Str(BearerWord)
    /\ IsObject(tr2) => tr2.token_type = Str(BearerWord)

C3_Witness ==
    /\ IsObject(tr2)
    /\ tr.access_token = Str(<<Backslash, Quote>>)
    /\ tr.expires_in = Num(-MaxExpires)
    /\ tr2 = tr

RequiredSettings ==
    {"client_id", "team_id", "key_id", "private_key", "redirect_uri"}

EntryOf(e, f) == e[EnvKey[f]]

\* C4, as stated: instantiation fails, naming the field, whenever a required
\* setting has no entry or an empty one, and no instance has a required
\* field that is missing or empty.
C4_MissingOrEmptyRejected ==
    /\ result # NotRun =>
          \A f \in RequiredSettings :
              /\ ~EntryOf(result.from, f).set => Rejected(result.out, f)
              /\ EntryOf(result.from, f).val = ""
                    => result.out.kind = "ValidationError"
    /\ \A i \in 1..Len(heap) : \A f \in RequiredSettings :
          heap[i].made[f].t = "str" /\ heap[i].made[f].a # ""

\* C4, amended: instantiation fails, naming exactly the fields concerned,
\* whenever a required setting has no entry; an entry that is the empty
\* string is an entry, and the field is then the empty string; no instance
\* is made while a required setting has no entry.
C4_MissingRejected ==
    /\ result # NotRun =>
          LET missing == {f \in RequiredSettings : ~EntryOf(result.from, f).set}
          IN  IF missing # {}
              THEN result.out = ValidationError(missing)
              ELSE /\ result.out.kind = "Instance"
                   /\ heap[result.out.id].from = result.from
    /\ \A i \in 1..Len(heap) : \A f \in RequiredSettings :
          /\ EntryOf(heap[i].from, f).set
          /\ heap[i].made[f] = Txt(EntryOf(heap[i].from, f).val)

C4_Witness ==
    /\ Len(heap) = 1
    /\ heap[1].from["SIWA_CLIENT_ID"] = Entry("")
    /\ heap[1].made.client_id = Txt("")
    /\ result # NotRun
    /\ result.out = ValidationError({"client_id"})

\* C5: in an instance, scope, response_mode, response_type and state are
\* "email name", "form_post", "code id_token" and None where the environment
\* has no entry for them, and the entry's value where it has, each field
\* independently of the others.
C5_Defaults ==
    \A i \in 1..Len(heap) :
        LET e == heap[i].from
            o == heap[i].made
            Given(f) == Txt(EntryOf(e, f).val)
        IN  /\ o.scope = IF e["SIWA_SCOPE"].set
                         THEN Given("scope") ELSE Txt("email name")
            /\ o.response_mode = IF e["SIWA_RESPONSE_MODE"].set
                                 THEN Given("response_mode") ELSE Txt("form_post")
            /\ o.response_type = IF e["SIWA_RESPONSE_TYPE"].set
                                 THEN Given("response_type") ELSE Txt("code id_token")
            /\ o.state = IF e["SIWA_STATE"].set
                         THEN Given("state") ELSE TxtNone

C5_Witness ==
    /\ Len(heap) = 1
    /\ ~heap[1].from["SIWA_SCOPE"].set
    /\ heap[1].from["SIWA_RESPONSE_MODE"] = Entry("x")
    /\ ~heap[1].from["SIWA_RESPONSE_TYPE"].set
    /\ ~heap[1].from["SIWA_STATE"].set
    /\ heap[1].made.scope = Txt("email name")
    /\ heap[1].made.response_mode = Txt("x")
    /\ heap[1].made.response_type = Txt("code id_token")
    /\ heap[1].made.state = TxtNone

\* C6, as stated: no two keys of a constructed JWKSet have the same kid.
C6_UniqueKids == IsObject(jwks) => UniqueKids(jwks.keys)

KeyDocValid(d) == \A f \in KeyFields : d[f].t = "str"

\* C6, amended: a key-set document whose keys are all valid yields a JWKSet
\* with exactly the document's keys, in order and unchanged, two keys with
\* the same kid included: kid values are unique in the JWKSet exactly when
\* they are in the document.
C6_KeysAsGiven ==
    jwks # NotRun /\ jwkDoc.hasKeys
        /\ (\A i \in 1..Len(jwkDoc.keys) : KeyDocValid(jwkDoc.keys[i]))
    => /\ IsObject(jwks)
       /\ Len(jwks.keys) = Len(jwkDoc.keys)
       /\ \A i \in 1..Len(jwkDoc.keys) : \A f \in KeyFields :
             jwks.keys[i][f] = jwkDoc.keys[i][f]
       /\ UniqueKids(jwks.keys) <=> UniqueKids(jwkDoc.keys)

C6_Witness ==
    /\ IsObject(jwks)
    /\ Len(jwks.keys) = 2
    /\ jwks.keys[1].kid = jwks.keys[2].kid
    /\ jwks.keys[1].n # jwks.keys[2].n

\* C7, as stated: every constructed IdentityToken has iat < exp.
C7_IatBeforeExp == IsObject(built) => built.iat.n < built.exp.n

\* C7, amended: a constructed IdentityToken carries iat and exp as they were
\* given, whatever their order: a claim set is not rejected for an iat equal
\* to or later than its exp, and iat < exp holds in the token exactly when
\* it holds in the claim set.
C7_TimestampsAsGiven ==
    built # NotRun /\ claims.iat.t = "int" /\ claims.exp.t = "int"
    => /\ ~Rejected(built, "iat")
       /\ ~Rejected(built, "exp")
       /\ IsObject(built) =>
             /\ built.iat.n = claims.iat.n
             /\ built.exp.n = claims.exp.n
             /\ built.iat.n < built.exp.n <=> claims.iat.n < claims.exp.n

C7_Witness ==
    /\ IsObject(built)
    /\ claims.iat = Num(MaxTime)
    /\ claims.exp = Num(0)
    /\ built.iat = Time(MaxTime)
    /\ built.exp = Time(0)

\* C8: every key of a constructed key set has kty "RSA".
C8_KtyIsRSA ==
    IsObject(jwks) => \A i \in 1..Len(jwks.keys) : jwks.keys[i].kty = Txt("RSA")

ExpectedSetting(e, f) ==
    IF EntryOf(e, f).set THEN Txt(EntryOf(e, f).val)
    ELSE CASE f = "scope"         -> Txt("email name")
           [] f = "response_mode" -> Txt("form_post")
           [] f = "response_type" -> Txt("code id_token")
           [] OTHER               -> TxtNone

\* The value the assignments in log give field f, or else was.
RECURSIVE AfterAssignments(_, _, _)
AfterAssignments(log, f, was) ==
    IF log = <<>> THEN was
    ELSE AfterAssignments(Tail(log), f,
                          IF Head(log)[1] = f THEN Head(log)[2] ELSE was)

\* C9, as stated (its first half): every read of the configuration after
\* the first successful one yields the field values of the first, whatever
\* became of the environment in between.
C9_LoadedOnce ==
    \A i \in 1..Len(heap) : heap[i].made = heap[1].made

\* C9, amended: the environment is read at every instantiation: each
\* instance is a new one and has the field values the environment gave at
\* the time it was made, so one made after a change of the environment
\* shows the change; an instance already made is not changed by a change of
\* the environment, only by an assignment to one of its fields.
C9_ReadAtEveryLoad ==
    /\ \A i \in 1..Len(heap) : \A f \in ConfigFieldSet :
          /\ heap[i].made[f] = ExpectedSetting(heap[i].from, f)
          /\ heap[i].obj[f] = AfterAssignments(heap[i].sets, f, heap[i].made[f])
    /\ result # NotRun /\ result.out.kind = "Instance"
          => result.out.id = Len(heap) /\ heap[Len(heap)].from = result.from

C9_Witness ==
    /\ Len(heap) = 2
    /\ heap[1].from["SIWA_CLIENT_ID"] = Entry("v")
    /\ heap[2].from["SIWA_CLIENT_ID"] = Entry("")
    /\ heap[1].made.client_id = Txt("v")
    /\ heap[2].made.client_id = Txt("")
    /\ heap[1].obj = heap[1].made

\* C10, as stated: once constructed, an IdentityToken keeps the value of
\* every field, an assignment to a field included.
C10_NeverMutated == IsObject(built) => token = built

\* C10, amended: the fields of a constructed IdentityToken change only by
\* assignment: an assignment puts the assigned value in the assigned field
\* as it is, unvalidated and not normalized, and every field not assigned
\* to keeps the value it had at construction.
C10_ChangedOnlyByAssignment ==
    IsObject(built) =>
        \A f \in TokenFields :
            token[f] = AfterAssignments(assigned, f, built[f])

C10_Witness ==
    /\ IsObject(built)
    /\ built.email_verified = Bool(TRUE)
    /\ assigned = <<<<"email_verified", Str(<<"y", "e", "s">>)>>>>
    /\ token.email_verified = Str(<<"y", "e", "s">>)
    /\ token.is_private_email = built.is_private_email

====
